---- MODULE Spec2Model ----
(***************************************************************************)
(* Model of the PDF ingestion pipeline: FlowManager (flow_manager.py),     *)
(* VectorDBService.upload_chunks (vector_db_service.py), the data models   *)
(* (models.py) and the two entry points, main.py and test_verification.py. *)
(*                                                                         *)
(* Strings are sequences of one-character strings, so that split, lower,   *)
(* endswith, replace and integer formatting are computed character by      *)
(* character.  Optional[T] is a sequence of length 0 (None) or 1.          *)
(* DocumentChunk objects are mutable and shared by reference: they live in *)
(* `heap` and lists of chunks are lists of heap addresses.                 *)
(* The vector store is a map from document id to the record last written   *)
(* under that id.  The embedding of a record is a function of its content  *)
(* computed by the store and is not represented.                           *)
(***************************************************************************)
EXTENDS Integers, Sequences, FiniteSets

VARIABLES entry, pc, run, listing, pdf_files, idx, file_name, pdf_bytes,
          heap, result, results, returned, store, calls,
          test_chunks, uploads, first_store, agent_log

vars == <<entry, pc, run, listing, pdf_files, idx, file_name, pdf_bytes,
          heap, result, results, returned, store, calls,
          test_chunks, uploads, first_store, agent_log>>

\* ------------------------------------------------------------ bounds

\* Longest listing the document source returns.
MaxListing == 3
\* Most chunks the chunking agent returns for one document.
MaxChunks == 2
\* Most upload_chunks calls one run of the verification script makes.
MaxUploads == 2

\* ------------------------------------------------------------ values

None == <<>>
Some(x) == <<x>>

\* Python truthiness of an Optional[str]: None and "" are falsy.
Truthy(opt) == opt /= None /\ opt[1] /= <<>>

DotPdf == <<".", "p", "d", "f">>

\* ------------------------------------------------------ str methods

LowerChar(c) ==
  CASE c = "P" -> "p"
    [] c = "D" -> "d"
    [] c = "F" -> "f"
    [] OTHER -> c

Lower(s) == [k \in 1..Len(s) |-> LowerChar(s[k])]

EndsWith(s, suf) ==
  /\ Len(s) >= Len(suf)
  /\ SubSeq(s, Len(s) - Len(suf) + 1, Len(s)) = suf

RECURSIVE Split(_, _)
Split(s, sep) ==
  IF \E k \in 1..Len(s) : s[k] = sep
  THEN LET k == CHOOSE k \in 1..Len(s) :
                  s[k] = sep /\ \A j \in 1..(k - 1) : s[j] /= sep
       IN <<SubSeq(s, 1, k - 1)>> \o Split(SubSeq(s, k + 1, Len(s)), sep)
  ELSE <<s>>

Replace(s, old, new) == [k \in 1..Len(s) |-> IF s[k] = old THEN new ELSE s[k]]

Digit(d) == <<"0", "1", "2", "3", "4", "5", "6", "7", "8", "9">>[d + 1]

RECURSIVE NatToStr(_)
NatToStr(n) ==
  IF n < 10 THEN <<Digit(n)>> ELSE NatToStr(n \div 10) \o <<Digit(n % 10)>>

IntToStr(n) == IF n < 0 THEN <<"-">> \o NatToStr(-n) ELSE NatToStr(n)

\* ----------------------------------------------------------- inputs

\* The objects of the bucket, in the order list_blobs yields them.
Bucket ==
  << <<"a", "/", "m", ".", "P", "D", "F">>,
     <<"a", "/", "n", ".", "t", "x", "t">>,
     <<"a", "/", "r", ".", "p", "d", "f">>,
     <<"b", "/", "r", ".", "p", "d", "f">> >>

RECURSIVE SubSeqs(_)
SubSeqs(s) ==
  IF s = <<>> THEN {<<>>}
  ELSE LET rest == SubSeqs(Tail(s))
       IN rest \cup {<<Head(s)>> \o t : t \in rest}

\* What list_blobs(prefix) may return: the objects under some prefix.
Listings == {l \in SubSeqs(Bucket) : Len(l) <= MaxListing}

DocumentChunk(id, date, section, content, source) ==
  [chunk_id |-> id, document_date |-> date, section_type |-> section,
   content |-> content, source_file |-> source]

\* Chunks the agent may extract.
ChunkPool ==
  { DocumentChunk(0, Some("d1"), "Header and Agenda", "c1", None),
    DocumentChunk(1, None, "Topic Discussion", "c2", Some(<<>>)),
    DocumentChunk(0, None, "Closing and Decisions", "c3",
                  Some(<<"o", ".", "p", "d", "f">>)) }

\* The sequences of at most n different members of S.
RECURSIVE SeqsUpTo(_, _)
SeqsUpTo(S, n) ==
  IF n = 0 THEN {<<>>}
  ELSE LET shorter == SeqsUpTo(S, n - 1)
           longer == {Append(t, x) : t \in {u \in shorter : Len(u) = n - 1},
                                     x \in S}
       IN shorter \cup
          {t \in longer : \A j, k \in 1..Len(t) : t[j] = t[k] => j = k}

AgentOutputs == SeqsUpTo(ChunkPool, MaxChunks)

\* Chunks and display names the verification script passes to upload_chunks.
TestPool ==
  { DocumentChunk(999, Some("2026-02-23"), "Verification Test", "t1",
                  Some(<<"t", ".", "p", "d", "f">>)),
    DocumentChunk(3, None, "Topic Discussion", "t2", None),
    DocumentChunk(10, None, "Topic Discussion", "t3", Some(<<>>)),
    DocumentChunk(-7, None, "Topic Discussion", "t4", None) }

TestOutputs == SeqsUpTo(TestPool, MaxChunks)

TestNames ==
  { <<"t", ".", "p", "d", "f">>,
    <<"2", "0", "2", "4", "/", "j", "a", "n", ".", "p", "d", "f">> }

\* -------------------------------------------------------- flow_manager

\* The filter without lower().
IsPdfCaseSensitive(name) == EndsWith(name, DotPdf)

IsPdf(name) == EndsWith(Lower(name), DotPdf)

\* The first segment instead of the last.
FileNameFirst(blob_name) == Split(blob_name, "/")[1]

FileName(blob_name) ==
  LET parts == Split(blob_name, "/") IN parts[Len(parts)]

PDFProcessingResult(name, chunks) == [file_name |-> name, chunks |-> chunks]

total_chunks(r) == Len(r.chunks)

\* ---------------------------------------------------- vector_db_service

\* The assignment without its test.
SourceFileAlways(source, name) == Some(name)

SourceFileAfter(source, name) == IF ~Truthy(source) THEN Some(name) ELSE source

\* The heap after the loop of upload_chunks has visited every chunk.
Backfilled(hp, chunks, name) ==
  [a \in DOMAIN hp |->
     IF \E k \in 1..Len(chunks) : chunks[k] = a
     THEN [hp[a] EXCEPT !.source_file = SourceFileAfter(hp[a].source_file, name)]
     ELSE hp[a]]

\* The id with only the first replace.
DocIdSlashOnly(name, chunk_id) ==
  Replace(name \o <<"_">> \o IntToStr(chunk_id), "/", "_")

DocId(name, chunk_id) ==
  Replace(Replace(name \o <<"_">> \o IntToStr(chunk_id), "/", "_"), ".", "_")

Document(chunk) ==
  [page_content |-> chunk.content,
   metadata |-> [source_file |-> chunk.source_file,
                 chunk_id |-> chunk.chunk_id,
                 document_date |-> chunk.document_date,
                 section_type |-> chunk.section_type]]

\* The ids and documents lists built by the loop (chunks already backfilled).
Ids(hp, chunks, name) ==
  [k \in 1..Len(chunks) |-> DocId(name, hp[chunks[k]].chunk_id)]

Documents(hp, chunks) == [k \in 1..Len(chunks) |-> Document(hp[chunks[k]])]

Put(st, key, rec) ==
  [x \in (DOMAIN st) \cup {key} |-> IF x = key THEN rec ELSE st[x]]

RECURSIVE FreshKey(_, _)
FreshKey(st, key) ==
  IF key \in DOMAIN st THEN FreshKey(st, key \o <<"'">>) ELSE key

\* add_documents called without ids: every document gets a new key.
RECURSIVE AddDocumentsNoIds(_, _, _)
AddDocumentsNoIds(st, documents, ids) ==
  IF documents = <<>> THEN st
  ELSE AddDocumentsNoIds(Put(st, FreshKey(st, Head(ids)), Head(documents)),
                         Tail(documents), Tail(ids))

\* add_documents(documents, ids): each document is written under its id,
\* in list order, replacing what the id held.
RECURSIVE AddDocuments(_, _, _)
AddDocuments(st, documents, ids) ==
  IF documents = <<>> THEN st
  ELSE AddDocuments(Put(st, Head(ids), Head(documents)),
                    Tail(documents), Tail(ids))

Uploaded(st, hp, chunks, name) ==
  LET hp2 == Backfilled(hp, chunks, name)
  IN AddDocuments(st, Documents(hp2, chunks), Ids(hp2, chunks, name))

\* ------------------------------------------------- collaborator calls

\* One call of a collaborator: the document it is made for, its argument,
\* whether it returned or raised, the chunks passed or returned, the chunk
\* values as returned, and the ids passed to the store.
Call(op, i, arg, ok, refs, vals, ids) ==
  [op |-> op, i |-> i, arg |-> arg, ok |-> ok, refs |-> refs, vals |-> vals,
   ids |-> ids]

\* upload_chunks issuing one add_documents call per chunk.
UpsertCallsPerChunk(i, name, ok, refs, ids) ==
  [k \in 1..Len(refs) |->
     Call("upsert", i, name, ok, <<refs[k]>>, <<>>, <<ids[k]>>)]

\* The store calls one upload_chunks call makes: one, with every chunk.
UpsertCalls(i, name, ok, refs, ids) ==
  <<Call("upsert", i, name, ok, refs, <<>>, ids)>>

\* Addresses of n objects allocated on heap hp.
Alloc(hp, n) == [k \in 1..n |-> Len(hp) + k]

\* ------------------------------------------------------------- state

Init ==
  /\ entry \in {"main", "test"}
  /\ pc = IF entry = "main" THEN "start" ELSE "t_start"
  /\ run = 1
  /\ listing \in (IF entry = "main" THEN Listings ELSE {<<>>})
  /\ pdf_files = <<>>
  /\ idx = 0
  /\ file_name = <<>>
  /\ pdf_bytes = None
  /\ heap = <<>>
  /\ result = None
  /\ results = <<>>
  /\ returned = None
  /\ store = <<>>
  /\ calls = <<>>
  /\ test_chunks = <<>>
  /\ uploads = 0
  /\ first_store = None
  /\ agent_log = <<>>

harness == <<entry, run, listing, test_chunks, uploads, first_store, agent_log>>

\* An exception leaves the loop, _process_single_pdf and process_all_pdfs
\* with nothing catching it on the way to skip the document.
SwallowAndContinue ==
  IF idx < Len(pdf_files)
  THEN pc' = "download" /\ idx' = idx + 1 /\ UNCHANGED <<results, returned>>
  ELSE pc' = "done" /\ returned' = Some(results) /\ UNCHANGED <<idx, results>>

\* An exception raised by a collaborator is not caught anywhere in
\* process_all_pdfs: the coroutine ends without a return value.
Propagate == pc' = "raised" /\ UNCHANGED <<idx, results, returned>>

\* process_all_pdfs up to its loop: discovery and the empty case.
ListPdfs ==
  /\ pc = "start"
  /\ pdf_files' = SelectSeq(listing, IsPdf)
  /\ results' = <<>>
  /\ IF pdf_files' = <<>>
     THEN pc' = "done" /\ returned' = Some(<<>>) /\ idx' = idx
     ELSE pc' = "download" /\ returned' = returned /\ idx' = 1
  /\ UNCHANGED <<file_name, pdf_bytes, heap, result, store, calls, harness>>

\* list_blobs raises.
ListFails ==
  /\ pc = "start"
  /\ pc' = "raised"
  /\ UNCHANGED <<pdf_files, idx, file_name, pdf_bytes, heap, result, results,
                 returned, store, calls, harness>>

\* _process_single_pdf: the display name and the download.
Download ==
  /\ pc = "download"
  /\ file_name' = FileName(pdf_files[idx])
  /\ calls' = Append(calls, Call("acquire", idx, pdf_files[idx], TRUE, <<>>, <<>>, <<>>))
  /\ pdf_bytes' = Some(pdf_files[idx])
  /\ pc' = "chunk"
  /\ UNCHANGED <<pdf_files, idx, heap, result, results, returned, store, harness>>

DownloadFails ==
  /\ pc = "download"
  /\ file_name' = FileName(pdf_files[idx])
  /\ calls' = Append(calls, Call("acquire", idx, pdf_files[idx], FALSE, <<>>, <<>>, <<>>))
  /\ Propagate
  /\ UNCHANGED <<pdf_files, pdf_bytes, heap, result, store, harness>>

\* _process_single_pdf: the agent's chunks and the result built from them.
\* A later run over the same documents is given the chunks of the first.
Chunk ==
  /\ pc = "chunk"
  /\ \E out \in (IF run = 1 THEN AgentOutputs ELSE {agent_log[idx]}) :
       LET refs == Alloc(heap, Len(out))
       IN /\ heap' = heap \o out
          /\ result' = Some(PDFProcessingResult(file_name, refs))
          /\ calls' = Append(calls, Call("chunk", idx, file_name, TRUE, refs,
                                         out, <<>>))
  /\ pc' = "upload"
  /\ UNCHANGED <<pdf_files, idx, file_name, pdf_bytes, results, returned,
                 store, harness>>

ChunkFails ==
  /\ pc = "chunk"
  /\ calls' = Append(calls, Call("chunk", idx, file_name, FALSE, <<>>, <<>>, <<>>))
  /\ Propagate
  /\ UNCHANGED <<pdf_files, file_name, pdf_bytes, heap, result, store, harness>>

\* _process_single_pdf: upload_chunks, then the loop's append and its exit.
Upload ==
  /\ pc = "upload"
  /\ LET chunks == result[1].chunks
     IN /\ heap' = Backfilled(heap, chunks, file_name)
        /\ store' = Uploaded(store, heap, chunks, file_name)
        /\ calls' = calls \o UpsertCalls(idx, file_name, TRUE, chunks,
                                          Ids(heap', chunks, file_name))
  /\ results' = Append(results, result[1])
  /\ IF idx < Len(pdf_files)
     THEN pc' = "download" /\ idx' = idx + 1 /\ returned' = returned
     ELSE pc' = "done" /\ idx' = idx /\ returned' = Some(results')
  /\ UNCHANGED <<pdf_files, file_name, pdf_bytes, result, harness>>

\* add_documents raises: the loop over the chunks has already run.
UploadFails ==
  /\ pc = "upload"
  /\ LET chunks == result[1].chunks
     IN /\ heap' = Backfilled(heap, chunks, file_name)
        /\ calls' = calls \o UpsertCalls(idx, file_name, FALSE, chunks,
                                          Ids(heap', chunks, file_name))
  /\ Propagate
  /\ UNCHANGED <<pdf_files, file_name, pdf_bytes, result, store, harness>>

\* test_integration: the chunks it constructs.
TestMakeChunks ==
  /\ pc = "t_start"
  /\ \E out \in TestOutputs :
       /\ heap' = heap \o out
       /\ test_chunks' = Alloc(heap, Len(out))
  /\ pc' = "t_ready"
  /\ UNCHANGED <<entry, run, listing, pdf_files, idx, file_name, pdf_bytes,
                 result, results, returned, store, calls, uploads,
                 first_store, agent_log>>

\* test_integration: an upload_chunks call; its exception is caught.
TestUpload ==
  /\ pc = "t_ready"
  /\ uploads < MaxUploads
  /\ uploads' = uploads + 1
  /\ \E name \in TestNames, ok \in BOOLEAN :
       /\ heap' = Backfilled(heap, test_chunks, name)
       /\ store' = IF ok THEN Uploaded(store, heap, test_chunks, name) ELSE store
       /\ calls' = calls \o UpsertCalls(uploads + 1, name, ok, test_chunks,
                                         Ids(heap', test_chunks, name))
  /\ UNCHANGED <<entry, pc, run, listing, pdf_files, idx, file_name, pdf_bytes,
                 result, results, returned, test_chunks, first_store, agent_log>>

Next ==
  \/ ListPdfs
  \/ ListFails
  \/ Download
  \/ DownloadFails
  \/ Chunk
  \/ ChunkFails
  \/ Upload
  \/ UploadFails
  \/ TestMakeChunks
  \/ TestUpload

Spec == Init /\ [][Next]_vars

\* The values the agent returned for each document of the finished run.
AgentLog ==
  [i \in 1..Len(pdf_files) |->
     LET k == CHOOSE k \in 1..Len(calls) :
                calls[k].op = "chunk" /\ calls[k].i = i
     IN calls[k].vals]

\* main.py run again over the same bucket: a new process (new objects, new
\* call history) against the store the first run left.
Rerun ==
  /\ pc = "done"
  /\ entry = "main"
  /\ run = 1
  /\ run' = run + 1
  /\ first_store' = Some(store)
  /\ agent_log' = AgentLog
  /\ pc' = "start"
  /\ pdf_files' = <<>>
  /\ idx' = 0
  /\ file_name' = <<>>
  /\ pdf_bytes' = None
  /\ heap' = <<>>
  /\ result' = None
  /\ results' = <<>>
  /\ returned' = None
  /\ calls' = <<>>
  /\ UNCHANGED <<entry, listing, store, test_chunks, uploads>>

NextRerun == Next \/ Rerun

SpecRerun == Init /\ [][NextRerun]_vars

\* ============================================================ claims

Last(s) == s[Len(s)]

\* f is the part of b after its last "/" (all of b when it has none).
IsLastSegment(f, b) ==
  /\ \A k \in 1..Len(f) : f[k] /= "/"
  /\ Len(f) <= Len(b)
  /\ SubSeq(b, Len(b) - Len(f) + 1, Len(b)) = f
  /\ Len(f) < Len(b) => b[Len(b) - Len(f)] = "/"

\* The calls of one kind made so far, as positions of the call history.
CallsOf(op) == {p \in 1..Len(calls) : calls[p].op = op}

\* The discovery step of the pipeline has returned its list.
Discovered ==
  /\ entry = "main"
  /\ pc \in {"download", "chunk", "upload", "done"} \/ (pc = "raised" /\ idx >= 1)

\* ---- C3

PdfSuffixes ==
  {<<".", p, d, f>> : p \in {"p", "P"}, d \in {"d", "D"}, f \in {"f", "F"}}

EndsInPdfAnyCase(name) ==
  /\ Len(name) >= 4
  /\ \E suf \in PdfSuffixes : \A k \in 1..4 : name[Len(name) - 4 + k] = suf[k]

MatchingPositions == {k \in 1..Len(listing) : EndsInPdfAnyCase(listing[k])}

\* C3: once discovery has returned, pdf_files is the listing restricted to
\* the positions whose name ends in ".pdf" in any letter case: every such
\* position appears exactly once and in listing order, and nothing else
\* appears.  When no position matches, pdf_files is empty, nothing raised,
\* and process_all_pdfs has returned the empty list.
C3_DiscoveryFilter ==
  Discovered =>
    /\ \E f \in [1..Len(pdf_files) -> 1..Len(listing)] :
         /\ \A j, k \in 1..Len(pdf_files) : j < k => f[j] < f[k]
         /\ {f[k] : k \in 1..Len(pdf_files)} = MatchingPositions
         /\ \A k \in 1..Len(pdf_files) : pdf_files[k] = listing[f[k]]
    /\ MatchingPositions = {} =>
         pdf_files = <<>> /\ pc = "done" /\ returned = Some(<<>>)

\* A listing of three names of which the upper-case ".PDF" and a ".pdf" are
\* kept and the ".txt" between them is dropped.
C3_Witness ==
  /\ Discovered
  /\ Len(listing) = 3
  /\ Len(pdf_files) = 2
  /\ pdf_files[1] = <<"a", "/", "m", ".", "P", "D", "F">>
  /\ ~EndsInPdfAnyCase(listing[2])

\* ---- C1

\* C1: when process_all_pdfs has returned after N discovered documents, it
\* returned N results; the i-th has the last "/"-segment of the i-th
\* discovered name as file_name, and its chunks are the chunk objects the
\* agent returned for that document, in the agent's order (total_chunks is
\* their number), each still holding the chunk_id, document_date,
\* section_type and content the agent gave it.
C1_OrderPreserved ==
  entry = "main" /\ pc = "done" =>
    /\ returned /= None
    /\ Len(returned[1]) = Len(pdf_files)
    /\ \A i \in 1..Len(pdf_files) :
         LET r == returned[1][i]
             made == {p \in CallsOf("chunk") : calls[p].i = i}
         IN /\ IsLastSegment(r.file_name, pdf_files[i])
            /\ Cardinality(made) = 1
            /\ \A p \in made :
                 /\ calls[p].ok
                 /\ r.chunks = calls[p].refs
                 /\ total_chunks(r) = Len(calls[p].vals)
                 /\ \A k \in 1..Len(r.chunks) :
                      LET c == heap[r.chunks[k]]
                          v == calls[p].vals[k]
                      IN /\ c.chunk_id = v.chunk_id
                         /\ c.content = v.content
                         /\ c.document_date = v.document_date
                         /\ c.section_type = v.section_type

\* Three documents processed, the second with two chunks and the third with
\* another number of them.
C1_Witness ==
  /\ entry = "main"
  /\ pc = "done"
  /\ returned /= None
  /\ Len(returned[1]) = 3
  /\ total_chunks(returned[1][2]) = 2
  /\ total_chunks(returned[1][3]) = 1

\* ---- C2

\* C2: in a pipeline run, a collaborator call that raised is the last call
\* of the run: the run has ended by the exception, nothing was returned
\* (although results may have been accumulated), and no call was made for
\* a later document.
C2_FailFast ==
  entry = "main" =>
    \A p \in 1..Len(calls) :
      ~calls[p].ok =>
        /\ p = Len(calls)
        /\ pc = "raised"
        /\ returned = None
        /\ \A q \in 1..Len(calls) : calls[q].i <= calls[p].i

\* The agent raised on document 2 of 3, after document 1 was accumulated.
C2_Witness ==
  /\ entry = "main"
  /\ pc = "raised"
  /\ Len(pdf_files) = 3
  /\ Len(results) = 1
  /\ calls /= <<>>
  /\ Last(calls).op = "chunk"
  /\ ~Last(calls).ok
  /\ Last(calls).i = 2

\* ---- C8

StepOp(p) == <<"acquire", "chunk", "upsert">>[((p - 1) % 3) + 1]

StepDoc(p) == ((p - 1) \div 3) + 1

\* C8: the call history of a pipeline run is acquire, chunk, upsert for the
\* first discovered document, then the same for the second, and so on: the
\* p-th call is the one this pattern names, acquire takes the discovered
\* name and the other two its last segment, the upsert call carries exactly
\* the chunks the chunk call before it returned, and every call but the
\* last has returned normally.  One result is accumulated per completed
\* upsert call.
C8_SerialOrder ==
  entry = "main" =>
    /\ \A p \in 1..Len(calls) :
         /\ StepDoc(p) <= Len(pdf_files)
         /\ calls[p].i = StepDoc(p)
         /\ calls[p].op = StepOp(p)
         /\ IF StepOp(p) = "acquire"
            THEN calls[p].arg = pdf_files[StepDoc(p)]
            ELSE IsLastSegment(calls[p].arg, pdf_files[StepDoc(p)])
         /\ StepOp(p) = "upsert" =>
              calls[p].refs = calls[p - 1].refs /\ Len(calls[p].ids) = Len(calls[p].refs)
         /\ p < Len(calls) => calls[p].ok
    /\ Len(results) = Cardinality({p \in CallsOf("upsert") : calls[p].ok})

\* Two documents fully processed, the first with two chunks in its one
\* upsert call.
C8_Witness ==
  /\ entry = "main"
  /\ Len(calls) = 6
  /\ calls[6].ok
  /\ Len(calls[3].refs) = 2

\* ---- C4

\* The chunks an upload_chunks call of this step was given, with the display
\* name it was given: the call is the last of the history after the step.
UploadStep ==
  /\ Len(calls') = Len(calls) + 1
  /\ Last(calls').op = "upsert"

StoredSourceFilesSet ==
  \A key \in DOMAIN store : store[key].metadata.source_file /= None

\* C4 as stated: an upload_chunks call sets source_file to the display name
\* on every chunk where it was None, leaves it as it was on every chunk
\* where it was anything else, and no stored record has a None source_file.
C4_AsStated ==
  [][/\ UploadStep =>
          \A k \in 1..Len(Last(calls').refs) :
            LET a == Last(calls').refs[k]
            IN IF heap[a].source_file = None
               THEN heap'[a].source_file = Some(Last(calls').arg)
               ELSE heap'[a].source_file = heap[a].source_file
     /\ StoredSourceFilesSet']_vars

\* C4: an upload_chunks call sets source_file to the display name on every
\* chunk where it was None or the empty string, leaves it as it was on
\* every chunk where it was a non-empty string (equal to the display name
\* or not), and no stored record has a None source_file.
C4_Backfill ==
  [][/\ UploadStep =>
          \A k \in 1..Len(Last(calls').refs) :
            LET a == Last(calls').refs[k]
            IN IF heap[a].source_file \in {None, Some(<<>>)}
               THEN heap'[a].source_file = Some(Last(calls').arg)
               ELSE heap'[a].source_file = heap[a].source_file
     /\ StoredSourceFilesSet']_vars

\* A document uploaded whose agent left one chunk without source_file, now
\* the display name, and gave another one a different file's name, kept;
\* both are in the store.
C4_Witness ==
  /\ entry = "main"
  /\ Len(calls) >= 3
  /\ Last(calls).op = "upsert"
  /\ Last(calls).ok
  /\ LET c == calls[Len(calls) - 1]
     IN \E j, k \in 1..Len(c.refs) :
          /\ c.vals[j].source_file = None
          /\ heap[c.refs[j]].source_file = Some(Last(calls).arg)
          /\ Truthy(c.vals[k].source_file)
          /\ heap[c.refs[k]].source_file = c.vals[k].source_file
          /\ heap[c.refs[k]].source_file /= Some(Last(calls).arg)
  /\ \A k \in 1..Len(Last(calls).ids) : Last(calls).ids[k] \in DOMAIN store

\* ---- C5

DigitValue(c) ==
  CHOOSE d \in 0..9 : <<"0", "1", "2", "3", "4", "5", "6", "7", "8", "9">>[d + 1] = c

IsDigits(s) ==
  /\ s /= <<>>
  /\ \A k \in 1..Len(s) : s[k] \in {"0", "1", "2", "3", "4", "5", "6", "7", "8", "9"}
  /\ Len(s) > 1 => s[1] /= "0"

RECURSIVE DigitsValue(_)
DigitsValue(s) ==
  IF s = <<>> THEN 0 ELSE 10 * DigitsValue(SubSeq(s, 1, Len(s) - 1)) + DigitValue(Last(s))

\* s is the decimal numeral of n.
IsDecimalOf(s, n) ==
  IF n < 0
  THEN /\ Len(s) >= 2
       /\ s[1] = "-"
       /\ IsDigits(Tail(s))
       /\ DigitsValue(Tail(s)) = -n
  ELSE IsDigits(s) /\ DigitsValue(s) = n

\* key is name, "_", the decimal numeral of id, with "/" and "." made "_".
IsKeyOf(key, name, id) ==
  /\ Len(key) >= Len(name) + 2
  /\ \A k \in 1..Len(name) :
       key[k] = IF name[k] \in {"/", "."} THEN "_" ELSE name[k]
  /\ key[Len(name) + 1] = "_"
  /\ IsDecimalOf(SubSeq(key, Len(name) + 2, Len(key)), id)
  /\ \A k \in 1..Len(key) : key[k] \notin {"/", "."}

Jan2024 == <<"2", "0", "2", "4", "/", "j", "a", "n", ".", "p", "d", "f">>

Jan2024Key3 ==
  <<"2", "0", "2", "4", "_", "j", "a", "n", "_", "p", "d", "f", "_", "3">>

\* C5: every id any upload_chunks call passed to the store is the display
\* name, "_" and the decimal chunk_id with each "/" and "." replaced by "_"
\* (so it holds neither); for "2024/jan.pdf" and chunk_id 3 it is
\* "2024_jan_pdf_3"; and two ids derived from the same display name and
\* chunk_id are the same, whichever call, chunk or store state they were
\* derived in.
C5_KeyDerivation ==
  /\ \A p \in CallsOf("upsert") :
       \A k \in 1..Len(calls[p].refs) :
         LET id == heap[calls[p].refs[k]].chunk_id
         IN /\ IsKeyOf(calls[p].ids[k], calls[p].arg, id)
            /\ calls[p].arg = Jan2024 /\ id = 3 => calls[p].ids[k] = Jan2024Key3
  /\ \A p, q \in CallsOf("upsert") :
       \A j \in 1..Len(calls[p].refs), k \in 1..Len(calls[q].refs) :
         /\ calls[p].arg = calls[q].arg
         /\ heap[calls[p].refs[j]].chunk_id = heap[calls[q].refs[k]].chunk_id
         => calls[p].ids[j] = calls[q].ids[k]

\* "2024/jan.pdf" uploaded with the chunks 3 and -7, after another upload.
C5_Witness ==
  /\ entry = "test"
  /\ Len(calls) = 2
  /\ Last(calls).arg = Jan2024
  /\ Last(calls).ok
  /\ \E j, k \in 1..Len(Last(calls).refs) :
       /\ heap[Last(calls).refs[j]].chunk_id = 3
       /\ heap[Last(calls).refs[k]].chunk_id = -7
       /\ Last(calls).ids[j] \in DOMAIN store

\* ---- C9

\* A result as a reader of it sees it: its chunks' fields looked up.
ResultView(r, hp) ==
  [file_name |-> r.file_name, chunks |-> [k \in 1..Len(r.chunks) |-> hp[r.chunks[k]]]]

\* The same without the chunks' source_file.
ResultViewButSource(r, hp) ==
  [file_name |-> r.file_name,
   chunks |-> [k \in 1..Len(r.chunks) |->
                 [hp[r.chunks[k]] EXCEPT !.source_file = None]]]

\* The step makes the result of the current document.
ResultMade ==
  /\ Len(calls') = Len(calls) + 1
  /\ Last(calls').op = "chunk"
  /\ Last(calls').ok

\* C9 as stated: the current result is replaced only when the agent has
\* returned the chunks of a document, and from then on no step changes what
\* is read from it, nor from any accumulated result.
C9_AsStated ==
  [][entry = "main" =>
       /\ result' /= result => ResultMade
       /\ result /= None /\ ~ResultMade =>
            ResultView(result'[1], heap') = ResultView(result[1], heap)
       /\ \A k \in 1..Len(results) :
            /\ k <= Len(results')
            /\ ResultView(results'[k], heap') = ResultView(results[k], heap)]_vars

\* The only change a step may make to a chunk a result holds: in the step
\* of an upload_chunks call, a None or empty source_file becomes the
\* display name.
OnlyBackfilled(r, hp, hp2) ==
  /\ ResultViewButSource(r, hp2) = ResultViewButSource(r, hp)
  /\ \A k \in 1..Len(r.chunks) :
       LET before == hp[r.chunks[k]].source_file
           after == hp2[r.chunks[k]].source_file
       IN after /= before =>
            /\ UploadStep
            /\ before \in {None, Some(<<>>)}
            /\ after = Some(r.file_name)

\* C9: the current result is replaced only when the agent has returned the
\* chunks of a document, and from then on no step changes its file_name,
\* the number or order of its chunks, or a chunk's chunk_id, document_date,
\* section_type or content; a chunk's source_file changes only in the
\* persistence step, from None or the empty string to the result's
\* file_name.  The same holds of every accumulated result.
C9_ResultFrame ==
  [][entry = "main" =>
       /\ result' /= result => ResultMade
       /\ result /= None /\ ~ResultMade =>
            /\ result' = result
            /\ OnlyBackfilled(result[1], heap, heap')
       /\ \A k \in 1..Len(results) :
            /\ k <= Len(results')
            /\ results'[k] = results[k]
            /\ OnlyBackfilled(results[k], heap, heap')]_vars

\* A returned result one of whose chunks the agent left without
\* source_file and which now reads the file name.
C9_Witness ==
  /\ entry = "main"
  /\ pc = "done"
  /\ returned /= None
  /\ \E i \in 1..Len(returned[1]) :
       \E p \in CallsOf("chunk") :
         /\ calls[p].i = i
         /\ \E k \in 1..Len(calls[p].vals) :
              /\ calls[p].vals[k].source_file = None
              /\ ResultView(returned[1][i], heap).chunks[k].source_file =
                   Some(returned[1][i].file_name)

\* ---- C6

\* The agent gave the chunks of each document different chunk_ids.
ChunkIdsUniquePerDocument ==
  \A p \in CallsOf("chunk") :
    \A j, k \in 1..Len(calls[p].vals) :
      calls[p].vals[j].chunk_id = calls[p].vals[k].chunk_id => j = k

\* The chunks written so far: a completed upsert call and a position in it.
Written ==
  UNION {{<<p, k>> : k \in 1..Len(calls[p].refs)} :
           p \in {q \in CallsOf("upsert") : calls[q].ok}}

\* C6: in a pipeline run whose documents each have chunks of different
\* chunk_ids, no two written chunks (of one document or of two) were
\* written under the same id.
C6_NoCollision ==
  entry = "main" /\ ChunkIdsUniquePerDocument =>
    \A v, w \in Written :
      calls[v[1]].ids[v[2]] = calls[w[1]].ids[w[2]] => v = w

\* ---- C10

\* The records of the chunks written so far.
WrittenRecords == {Document(heap[calls[w[1]].refs[w[2]]]) : w \in Written}

\* C10: at every point of a pipeline run whose documents each have chunks
\* of different chunk_ids, the records the store holds are exactly the
\* records of the chunks of the documents whose upsert call has completed;
\* in particular after the run was aborted by an exception, when nothing
\* is returned to the caller.
C10_NoRollback ==
  entry = "main" /\ ChunkIdsUniquePerDocument =>
    /\ {store[key] : key \in DOMAIN store} = WrittenRecords
    /\ pc = "raised" => returned = None

\* ---- C7

\* The step is an upload_chunks call that completed, with the chunks and
\* the display name of the completed call before it.
RepeatedUpload ==
  /\ UploadStep
  /\ Len(calls) >= 1
  /\ Last(calls).op = "upsert"
  /\ Last(calls).ok
  /\ Last(calls').ok
  /\ Last(calls').arg = Last(calls).arg
  /\ Last(calls').refs = Last(calls).refs

\* C7: an upload_chunks call that repeats the completed call before it
\* (same chunk objects, same display name) leaves the store as it was, keys
\* and records; and when the pipeline has run again to its end over the
\* same listing with the agent returning the same chunk values, the store
\* is what the first run left.
C7_Idempotent ==
  [][/\ RepeatedUpload => store' = store
     /\ run' > 1 /\ pc' = "done" => store' = first_store'[1]]_vars

\* The verification script has made the same completed upload twice, of
\* two chunks.
C7_Witness ==
  /\ entry = "test"
  /\ Len(calls) >= 2
  /\ Last(calls).ok
  /\ calls[Len(calls) - 1].ok
  /\ calls[Len(calls) - 1].arg = Last(calls).arg
  /\ Len(Last(calls).refs) = 2
  /\ Cardinality(DOMAIN store) = 2

====
